---- MODULE Spec2Model ----
(***************************************************************************)
(* A model of the RAG service (services/rag/index_loader.py,               *)
(* services/rag/main.py) and of the backend initialisation pipeline        *)
(* (backend_init_pipeline.py).                                             *)
(*                                                                         *)
(* Granularity: asyncio is cooperative, so one action is the code that     *)
(* runs between two suspension points (await) of one task.  A storage      *)
(* query takes three steps: the task suspends on it, the database          *)
(* evaluates it against the storage content of that moment, and the task   *)
(* resumes with the result.                                                *)
(***************************************************************************)
EXTENDS Integers, Sequences, FiniteSets, TLC

VARIABLES
    \* ---- environment of the RAG service
    envDatabaseUrl,     \* os.getenv("DATABASE_URL") is set
    tableExists,        \* table ragembedding exists
    storage,            \* its rows, ORDER BY error_id
    dbUp,               \* the database accepts connections
    envLeft,            \* environment changes still to explore
    \* ---- main.index_loader and the RAGIndexLoader fields
    index_loader,       \* FALSE: the global is None
    index,              \* self.index
    error_store,        \* self.error_store
    index_to_error_id,  \* self.index_to_error_id
    loaded,             \* self._loaded
    \* ---- load_index_background task
    max_wait_time,      \* main.py 80
    bgPc, elapsed, bgFetched, bgResult, attempts,
    \* ---- POST /rag/reload handlers
    rlPc, rlFetched, rlResp, rlPrior, reloadsLeft,
    \* ---- POST /rag/query handlers
    qPc, qResp, queriesLeft,
    requests,           \* the query requests clients send
    \* ---- history
    builds,             \* successful builds so far: the active snapshot's number
    lastPublished,      \* the latest snapshot published, with the rows it was read from
    reads,              \* the storage reads of builds, in the order the database answered
    \* ---- backend_init_pipeline.main and the tasks it starts
    pipePc,             \* where main() is
    pipeError,          \* the exception main() is unwinding with ("" none)
    phases,             \* history: the log of the phases reached, in order
    monState,           \* monitor_task
    monCancel,          \* monitor_task.cancel() was called on a running task
    jwState,            \* rag_job_wait_task
    jwPolls,            \* polls wait_for_job_complete has made
    jobPhase,           \* the external job's phase
    jobLeft             \* phase changes still to explore

ragVars == <<envDatabaseUrl, tableExists, storage, dbUp, envLeft,
             index_loader, index, error_store, index_to_error_id, loaded,
             max_wait_time, bgPc, elapsed, bgFetched, bgResult, attempts,
             rlPc, rlFetched, rlResp, rlPrior, reloadsLeft,
             qPc, qResp, queriesLeft, requests, builds, lastPublished, reads>>

pipeVars == <<pipePc, pipeError, phases, monState, monCancel, jwState, jwPolls,
              jobPhase, jobLeft>>

vars == <<ragVars, pipeVars>>

loaderVars == <<index, error_store, index_to_error_id, loaded>>
envVars == <<envDatabaseUrl, tableExists, storage, dbUp, envLeft>>
bgVars == <<max_wait_time, bgPc, elapsed, bgFetched, bgResult, attempts>>
rlVars == <<rlPc, rlFetched, rlResp, rlPrior, reloadsLeft>>
qVars == <<qPc, qResp, queriesLeft, requests>>

(***************************************************************************)
(* Bounds of the model.                                                    *)
(***************************************************************************)
MaxEnvSteps == 2
MaxReloads == 2
MaxQueries == 1
\* polls the background loop is given in the service specification
PollBudget == 2
\* environment changes and reload requests beside the loop with the program's bound
LoopEnvSteps == 2
LoopReloads == 1
\* query requests in the search specification
SearchQueries == 1
\* polls of the job waiter before its timeout, phase changes of the job
MaxJobPolls == 2
MaxJobChanges == 2

(***************************************************************************)
(* Program constants.                                                      *)
(***************************************************************************)
EmbeddingDim == 768
MaxWaitTime == 600
WaitInterval == 5

ModelName == "nomic-ai/nomic-embed-text-v1.5"

(***************************************************************************)
(* Python dicts are functions; d.get(k, default).                          *)
(***************************************************************************)
EmptyDict == << >>

Get(d, k, default) == IF k \in DOMAIN d THEN d[k] ELSE default

(***************************************************************************)
(* Vectors.  A vector of n floats is kept sparse: its length and its       *)
(* non-zero entries (position :> value, values in thousandths).            *)
(***************************************************************************)
Vec(n, nz) == [len |-> n, nz |-> nz]

V1 == Vec(EmbeddingDim, (1 :> 1000))
V2 == Vec(EmbeddingDim, (2 :> 1000))
V3 == Vec(EmbeddingDim, (1 :> 600) @@ (2 :> 800))
VShort == Vec(EmbeddingDim - 1, (1 :> 1000))
\* np.array of a value that is no sequence: shape (), written as length -1
Scalar == Vec(-1, << >>)

(***************************************************************************)
(* A stored embedding: pgvector hands it over as an array or as text.      *)
(* Text is JSON of a list ("[0.1, 0.2]"), JSON of no list ("null"), a      *)
(* Python literal that is not JSON ("(0.1, 0.2)"), or neither.             *)
(***************************************************************************)
Embedding(enc, v) == [enc |-> enc, vec |-> v]

Meta1 == [sections |-> [description |-> "d1", resolution |-> "r1"],
          metadata |-> [source_file |-> "f1.pdf", page |-> 1]]
MetaNoSections == [metadata |-> [source_file |-> "f2.pdf", page |-> 2]]
MetaNull == EmptyDict

Row(id, emb, title, meta, model, dim) ==
    [error_id |-> id, embedding |-> emb, error_title |-> title,
     error_metadata |-> meta, model_name |-> model, embedding_dim |-> dim]

RowA == Row("e1", Embedding("array", V1), "t1", Meta1, ModelName, EmbeddingDim)
RowA2 == Row("e1", Embedding("literal", V3), "t1b", Meta1, ModelName, EmbeddingDim)
RowB == Row("e2", Embedding("json", V2), "t2", MetaNoSections, "other-model", EmbeddingDim)
RowC == Row("e3", Embedding("array", V3), "t3", MetaNull, ModelName, EmbeddingDim)
RowBDim == Row("e2", Embedding("array", V2), "t2", Meta1, ModelName, 384)
RowBGarbage == Row("e2", Embedding("garbage", V2), "t2", Meta1, ModelName, EmbeddingDim)
RowBShort == Row("e2", Embedding("json", VShort), "t2", Meta1, ModelName, EmbeddingDim)
RowBScalar == Row("e2", Embedding("json scalar", V2), "t2", Meta1, ModelName, EmbeddingDim)

\* The contents the table takes: error_id is its key, rows come ordered by it.
ValidContents == {<<RowA>>, <<RowA2, RowB, RowC>>}
InvalidContents == {<<RowA, RowBDim, RowC>>, <<RowA, RowBGarbage>>, <<RowA, RowBShort>>,
                    <<RowA, RowBScalar>>}
StorageContents == {<< >>} \cup ValidContents \cup InvalidContents

(***************************************************************************)
(* RAGIndexLoader.load_index, lines 84-173: from the fetched rows to the   *)
(* FAISS index, the payload store and the ordinal mapping, or the          *)
(* ValueError raised on the way.                                           *)
(***************************************************************************)
Raise(exc, msg) == [ok |-> FALSE, exc |-> exc, msg |-> msg,
                    index |-> <<>>, error_store |-> EmptyDict, index_to_error_id |-> EmptyDict]

Built(embeddings, store, mapping) ==
    [ok |-> TRUE, exc |-> "", msg |-> "",
     index |-> embeddings, error_store |-> store, index_to_error_id |-> mapping]

\* json.loads, then ast.literal_eval, of a textual embedding, and np.array
\* of what they give (lines 117-135)
DecodeEmbedding(emb) ==
    CASE emb.enc = "array" -> [ok |-> TRUE, value |-> emb.vec]
      [] emb.enc = "json" -> [ok |-> TRUE, value |-> emb.vec]
      [] emb.enc = "json scalar" -> [ok |-> TRUE, value |-> Scalar]
      [] emb.enc = "literal" -> [ok |-> TRUE, value |-> emb.vec]
      [] OTHER -> [ok |-> FALSE, value |-> emb.vec]

\* mutant: the payload depends on what was built before
StoreEntry_Stamped(row) ==
    [error_id |-> row.error_id,
     error_title |-> <<row.error_title, builds>>,
     sections |-> Get(row.error_metadata, "sections", EmptyDict),
     metadata |-> Get(row.error_metadata, "metadata", EmptyDict)]

StoreEntry(row) ==
    LET error_metadata == row.error_metadata
    IN [error_id |-> row.error_id,
        error_title |-> row.error_title,
        sections |-> Get(error_metadata, "sections", EmptyDict),
        metadata |-> Get(error_metadata, "metadata", EmptyDict)]

\* mutant: a bad row ends the loop and the rows before it are kept
ProcessRows_Partial(rows, idx, embeddings_list, store, mapping) ==
    LET Bad(row) == \/ row.embedding_dim # EmbeddingDim
                    \/ ~DecodeEmbedding(row.embedding).ok
                    \/ DecodeEmbedding(row.embedding).value.len # EmbeddingDim
        good == IF \E i \in 1..Len(rows) : Bad(rows[i])
                    THEN (CHOOSE i \in 1..Len(rows) :
                             Bad(rows[i]) /\ \A j \in 1..(i - 1) : ~Bad(rows[j])) - 1
                    ELSE Len(rows)
    IN Built([i \in 1..good |-> DecodeEmbedding(rows[i].embedding).value],
             [k \in {rows[i].error_id : i \in 1..good} |->
                 StoreEntry(rows[CHOOSE i \in 1..good : rows[i].error_id = k])],
             [i \in 0..(good - 1) |-> rows[i + 1].error_id])

\* mutant: the ordinals are given from the last row to the first
ProcessRows_Reversed(rows, idx, embeddings_list, store, mapping) ==
    IF \E i \in 1..Len(rows) :
          \/ rows[i].embedding_dim # EmbeddingDim
          \/ ~DecodeEmbedding(rows[i].embedding).ok
          \/ DecodeEmbedding(rows[i].embedding).value.len # EmbeddingDim
        THEN Raise("ValueError", "Invalid embedding")
        ELSE Built([i \in 1..Len(rows) |-> DecodeEmbedding(rows[i].embedding).value],
                   [k \in {rows[i].error_id : i \in 1..Len(rows)} |->
                       StoreEntry(rows[CHOOSE i \in 1..Len(rows) : rows[i].error_id = k])],
                   [i \in 0..(Len(rows) - 1) |-> rows[Len(rows) - i].error_id])

\* the loop of lines 95-155 from row idx (0-based) on
RECURSIVE ProcessRows(_, _, _, _, _)
ProcessRows(rows, idx, embeddings_list, store, mapping) ==
    IF idx = Len(rows) THEN Built(embeddings_list, store, mapping)
    ELSE
        LET row == rows[idx + 1]
            dec == DecodeEmbedding(row.embedding)
        IN IF row.embedding_dim # EmbeddingDim
               THEN Raise("ValueError", "Embedding dimension mismatch")
           ELSE IF ~dec.ok
               THEN Raise("ValueError", "Could not parse embedding")
           ELSE IF dec.value = Scalar
               THEN Raise("IndexError", "tuple index out of range")
           ELSE IF dec.value.len # EmbeddingDim
               THEN Raise("ValueError", "Invalid embedding shape")
           ELSE ProcessRows(rows, idx + 1,
                            Append(embeddings_list, dec.value),
                            (row.error_id :> StoreEntry(row)) @@ store,
                            (idx :> row.error_id) @@ mapping)

BuildIndex(rows) ==
    IF rows = << >>
        THEN Raise("ValueError", "No embeddings found")
        ELSE ProcessRows(rows, 0, << >>, EmptyDict, EmptyDict)

\* what `await conn.execute(...)` gives back: the rows, or the exception raised
Fetched(kind, rows) == [kind |-> kind, rows |-> rows]
NotFetched == Fetched("none", << >>)

ExecuteQuery ==
    IF ~dbUp THEN Fetched("connection refused", << >>)
    ELSE IF ~tableExists THEN Fetched("relation does not exist", << >>)
    ELSE Fetched("rows", storage)

\* the outcome of load_index once the query has returned
LoadOutcome(f) ==
    IF f.kind = "rows" THEN BuildIndex(f.rows)
    ELSE Raise("Exception", f.kind)

\* mutant: the ordinal mapping of the previous snapshot is kept
Publish_StaleMapping(out) ==
    /\ index' = [none |-> FALSE, vectors |-> out.index]
    /\ error_store' = out.error_store
    /\ index_to_error_id' = index_to_error_id
    /\ loaded' = TRUE
    /\ builds' = builds + 1

\* lines 175-179: the assignment that publishes a build
Publish(out) ==
    /\ index' = [none |-> FALSE, vectors |-> out.index]
    /\ error_store' = out.error_store
    /\ index_to_error_id' = out.index_to_error_id
    /\ loaded' = TRUE
    /\ builds' = builds + 1

\* load_index from its resumption to its return or raise
LoadIndexResume(out) ==
    IF out.ok THEN Publish(out)
    ELSE UNCHANGED <<loaderVars, builds>>

NoIndex == [none |-> TRUE, vectors |-> << >>]

\* history: what a build published (lines 176-178) and the rows it had read
Published(rows, out) ==
    [rows |-> rows, index |-> [none |-> FALSE, vectors |-> out.index],
     error_store |-> out.error_store, index_to_error_id |-> out.index_to_error_id]
NothingPublished ==
    [rows |-> << >>, index |-> NoIndex, error_store |-> EmptyDict,
     index_to_error_id |-> EmptyDict]

\* line 57: the early return of load_index
AlreadyLoaded == loaded /\ ~index.none

ntotal(ix) == Len(ix.vectors)

Reloaders == {"r1", "r2"}
Queriers == {"q1"}

\* history: the storage reads of load_index (lines 66-82) in the order the
\* database answered them.  order: the build attempts that hold a read they
\* have not resumed with, oldest read first ("bg": the loop's attempt);
\* older: those of them whose read is older than the read the latest
\* published snapshot was built from; newest: the rows of the most recent
\* read a build succeeds on
NoReads == [order |-> << >>, older |-> {}, newest |-> << >>]

\* the database answers the query of build attempt `who`
ReadBy(who, f) ==
    [reads EXCEPT !.order = Append(@, who),
                  !.newest = IF LoadOutcome(f).ok THEN f.rows ELSE @]

\* load_index of build attempt `who` resumes with outcome out (lines 176-178):
\* when it publishes, the attempts that read before it hold older reads
PublishedBy(who, out) ==
    LET pos == CHOOSE i \in 1..Len(reads.order) : reads.order[i] = who
        before == {reads.order[i] : i \in 1..(pos - 1)}
    IN [reads EXCEPT !.order = SelectSeq(@, LAMBDA h : h # who),
                     !.older = IF out.ok THEN before ELSE @ \ {who}]

(***************************************************************************)
(* The environment: the init job creates the table and fills it, rows are  *)
(* rewritten, the database goes away and comes back.                       *)
(***************************************************************************)
CreateTable ==
    /\ envLeft > 0
    /\ ~tableExists
    /\ tableExists' = TRUE
    /\ storage' = << >>
    /\ envLeft' = envLeft - 1
    /\ UNCHANGED <<envDatabaseUrl, dbUp, index_loader, loaderVars, bgVars, rlVars, qVars,
                   builds, lastPublished, reads, pipeVars>>

WriteRows ==
    /\ envLeft > 0
    /\ tableExists
    /\ \E c \in StorageContents \ {storage} : storage' = c
    /\ envLeft' = envLeft - 1
    /\ UNCHANGED <<envDatabaseUrl, tableExists, dbUp, index_loader, loaderVars, bgVars,
                   rlVars, qVars, builds, lastPublished, reads, pipeVars>>

ToggleDb ==
    /\ envLeft > 0
    /\ dbUp' = ~dbUp
    /\ envLeft' = envLeft - 1
    /\ UNCHANGED <<envDatabaseUrl, tableExists, storage, index_loader, loaderVars, bgVars,
                   rlVars, qVars, builds, lastPublished, reads, pipeVars>>

(***************************************************************************)
(* load_index_background (main.py 64-126).                                 *)
(***************************************************************************)
\* the while test of line 85 and load_index up to its first await
BgLoopHead(e) ==
    IF e < max_wait_time
        THEN /\ attempts' = attempts + 1
             /\ IF AlreadyLoaded
                    THEN bgPc' = "done" /\ bgResult' = "loaded"
                    ELSE bgPc' = "query" /\ bgResult' = bgResult
        ELSE /\ attempts' = attempts
             /\ bgPc' = "done"
             /\ bgResult' = "timeout"

\* lines 66-87: the task starts, creates the loader, enters the loop
BgStart ==
    /\ bgPc = "init"
    /\ IF ~envDatabaseUrl
           THEN /\ bgPc' = "done"
                /\ bgResult' = "no DATABASE_URL"
                /\ UNCHANGED <<index_loader, elapsed, attempts>>
           ELSE /\ index_loader' = TRUE
                /\ elapsed' = 0
                /\ BgLoopHead(0)
    /\ UNCHANGED <<envVars, loaderVars, max_wait_time, bgFetched, rlVars, qVars, builds, lastPublished, reads,
                   pipeVars>>

\* the database answers the query of lines 66-82
BgRead ==
    /\ bgPc = "query"
    /\ bgFetched' = ExecuteQuery
    /\ reads' = ReadBy("bg", ExecuteQuery)
    /\ bgPc' = "fetched"
    /\ UNCHANGED <<envVars, index_loader, loaderVars, max_wait_time, elapsed, bgResult,
                   attempts, rlVars, qVars, builds, lastPublished, pipeVars>>

\* mutant: zero rows end the loop like a validation error
BgHandler_ZeroRowsFatal(out) ==
    IF out.exc = "ValueError" THEN "return" ELSE "sleep"

\* which except branch of lines 90-122 an exception of load_index takes
BgHandler(out) ==
    IF out.exc = "ValueError"
        THEN IF out.msg = "No embeddings found" THEN "sleep" ELSE "return"
        ELSE "sleep"

\* load_index resumes (lines 84-181), then lines 88-122
BgResume ==
    /\ bgPc = "fetched"
    /\ LET out == LoadOutcome(bgFetched)
       IN /\ LoadIndexResume(out)
          /\ IF out.ok
                 THEN bgPc' = "done" /\ bgResult' = "loaded"
                 ELSE IF BgHandler(out) = "sleep"
                          THEN bgPc' = "sleep" /\ bgResult' = bgResult
                          ELSE bgPc' = "done" /\ bgResult' = "failed"
    /\ lastPublished' = IF LoadOutcome(bgFetched).ok
                            THEN Published(bgFetched.rows, LoadOutcome(bgFetched))
                            ELSE lastPublished
    /\ reads' = PublishedBy("bg", LoadOutcome(bgFetched))
    /\ bgFetched' = NotFetched
    /\ UNCHANGED <<envVars, index_loader, max_wait_time, elapsed, attempts, rlVars, qVars,
                   pipeVars>>

\* mutant: the sleep is not counted
BgWake_NotCounted ==
    /\ bgPc = "sleep"
    /\ elapsed' = elapsed
    /\ BgLoopHead(elapsed)
    /\ UNCHANGED <<envVars, index_loader, loaderVars, max_wait_time, bgFetched, rlVars,
                   qVars, builds, lastPublished, reads, pipeVars>>

\* asyncio.sleep returns: elapsed += wait_interval, back to the loop head
BgWake ==
    /\ bgPc = "sleep"
    /\ elapsed' = elapsed + WaitInterval
    /\ BgLoopHead(elapsed + WaitInterval)
    /\ UNCHANGED <<envVars, index_loader, loaderVars, max_wait_time, bgFetched, rlVars,
                   qVars, builds, lastPublished, reads, pipeVars>>

(***************************************************************************)
(* POST /rag/reload (main.py 275-293) over RAGIndexLoader.reload_index     *)
(* (index_loader.py 183-189).                                              *)
(***************************************************************************)
\* history: the snapshot active when a request arrived, by its number (0: none)
Snapshot == IF index.none THEN 0 ELSE builds

Response(status, detail, size) == [status |-> status, detail |-> detail, index_size |-> size]
NoResponse == Response(0, "", -1)

\* lines 185-188: reload_index forgets the snapshot before it loads
ClearLoader ==
    /\ loaded' = FALSE
    /\ index' = NoIndex
    /\ error_store' = EmptyDict
    /\ index_to_error_id' = EmptyDict

\* the request arrives; reload_index runs to the await of the query
RlStart(r) ==
    /\ rlPc[r] \in {"idle", "done"}
    /\ reloadsLeft > 0
    /\ reloadsLeft' = reloadsLeft - 1
    /\ rlPrior' = [rlPrior EXCEPT ![r] = Snapshot]
    /\ IF ~index_loader
           THEN /\ rlPc' = [rlPc EXCEPT ![r] = "done"]
                /\ rlResp' = [rlResp EXCEPT ![r] =
                                 Response(503, "Index loader not initialized", -1)]
                /\ UNCHANGED loaderVars
           ELSE /\ ClearLoader
                /\ rlPc' = [rlPc EXCEPT ![r] = "query"]
                /\ rlResp' = [rlResp EXCEPT ![r] = NoResponse]
    /\ UNCHANGED <<envVars, index_loader, bgVars, rlFetched, qVars, builds, lastPublished, reads, pipeVars>>

\* the database answers the query
RlRead(r) ==
    /\ rlPc[r] = "query"
    /\ rlFetched' = [rlFetched EXCEPT ![r] = ExecuteQuery]
    /\ reads' = ReadBy(r, ExecuteQuery)
    /\ rlPc' = [rlPc EXCEPT ![r] = "fetched"]
    /\ UNCHANGED <<envVars, index_loader, loaderVars, bgVars, rlResp, rlPrior, reloadsLeft,
                   qVars, builds, lastPublished, pipeVars>>

\* load_index resumes, then lines 287-293
RlResume(r) ==
    /\ rlPc[r] = "fetched"
    /\ LET out == LoadOutcome(rlFetched[r])
       IN /\ LoadIndexResume(out)
          /\ rlResp' = [rlResp EXCEPT ![r] =
                IF out.ok
                    THEN Response(200, "Index reloaded", Len(out.index))
                    ELSE Response(500, out.msg, -1)]
    /\ rlPc' = [rlPc EXCEPT ![r] = "done"]
    /\ lastPublished' = IF LoadOutcome(rlFetched[r]).ok
                            THEN Published(rlFetched[r].rows, LoadOutcome(rlFetched[r]))
                            ELSE lastPublished
    /\ reads' = PublishedBy(r, LoadOutcome(rlFetched[r]))
    /\ rlFetched' = [rlFetched EXCEPT ![r] = NotFetched]
    /\ UNCHANGED <<envVars, index_loader, bgVars, rlPrior, reloadsLeft, qVars, pipeVars>>

(***************************************************************************)
(* POST /rag/query (main.py 155-272).                                      *)
(***************************************************************************)
ProviderOutcomes == {"ok", "http error", "unexpected format"}

(***************************************************************************)
(* The search of query_rag (main.py 209-255) over the FAISS index.         *)
(* Scores are in thousandths, like the entries of the vectors.             *)
(***************************************************************************)
RECURSIVE SumOver(_, _)
SumOver(S, f) ==
    IF S = {} THEN 0
    ELSE LET i == CHOOSE x \in S : TRUE IN f[i] + SumOver(S \ {i}, f)

\* the largest r in lo..hi with r * r <= n
RECURSIVE SqrtBetween(_, _, _)
SqrtBetween(n, lo, hi) ==
    IF lo >= hi THEN lo
    ELSE LET mid == (lo + hi + 1) \div 2
         IN IF mid * mid <= n THEN SqrtBetween(n, mid, hi) ELSE SqrtBetween(n, lo, mid - 1)

\* np.linalg.norm (line 210)
Norm(v) ==
    LET squares == [i \in DOMAIN v.nz |-> v.nz[i] * v.nz[i]]
        absolute == [i \in DOMAIN v.nz |-> IF v.nz[i] < 0 THEN -v.nz[i] ELSE v.nz[i]]
    IN SqrtBetween(SumOver(DOMAIN v.nz, squares), 0, SumOver(DOMAIN v.nz, absolute))

\* lines 210-212: the query embedding is divided by its norm unless that is 0
Normalize(v) ==
    LET norm == Norm(v)
    IN IF norm > 0 THEN Vec(v.len, [i \in DOMAIN v.nz |-> (v.nz[i] * 1000) \div norm])
       ELSE v

\* the inner product IndexFlatIP scores with
InnerProduct(v, q) ==
    LET common == DOMAIN v.nz \cap DOMAIN q.nz
    IN SumOver(common, [i \in common |-> v.nz[i] * q.nz[i]]) \div 1000

\* the score of every ordinal of an index
Scores(ix, q) == [o \in 0..(ntotal(ix) - 1) |-> InnerProduct(ix.vectors[o + 1], q)]

\* mutant: the candidates come in any order
Rankings_Unordered(scores) ==
    LET n == Cardinality(DOMAIN scores)
    IN {p \in [1..n -> DOMAIN scores] : \A i, j \in 1..n : i < j => p[i] # p[j]}

\* the orders FAISS may give the ordinals: by descending score, rows of equal
\* score in an order the library does not promise
Rankings(scores) ==
    LET n == Cardinality(DOMAIN scores)
    IN {p \in [1..n -> DOMAIN scores] :
           /\ \A i, j \in 1..n : i < j => (p[i] # p[j] /\ scores[p[i]] >= scores[p[j]])}

\* the label and the score FAISS fills the places beyond ntotal with
NoOrdinal == -1
NoScore == -1000000

\* index.search(query_vector, top_k) (line 216): the top_k pairs (ordinal, score)
FaissSearch(ix, q, top_k) ==
    LET scores == Scores(ix, q)
    IN {[i \in 1..top_k |->
            IF i <= ntotal(ix) THEN [idx |-> p[i], similarity |-> scores[p[i]]]
            ELSE [idx |-> NoOrdinal, similarity |-> NoScore]] : p \in Rankings(scores)}

\* lines 231-251: the result built for a candidate
ErrorResult(idx, similarity) ==
    LET error_id == index_to_error_id[idx]
        error_data == error_store[error_id]
        sections == Get(error_data, "sections", EmptyDict)
        metadata == Get(error_data, "metadata", EmptyDict)
    IN [error_id |-> error_id,
        error_title |-> Get(error_data, "error_title", error_id),
        similarity_score |-> similarity,
        source_file |-> Get(metadata, "source_file", "None"),
        description |-> Get(sections, "description", "None")]

\* mutant: the threshold is not applied
FilterCandidates_NoThreshold(candidates, i, threshold) ==
    [j \in 1..Cardinality({c \in 1..Len(candidates) : candidates[c].idx # NoOrdinal}) |->
        ErrorResult(candidates[j].idx, candidates[j].similarity)]

\* the loop of lines 223-252 from candidate i on
RECURSIVE FilterCandidates(_, _, _)
FilterCandidates(candidates, i, threshold) ==
    IF i > Len(candidates) THEN << >>
    ELSE LET c == candidates[i]
             rest == FilterCandidates(candidates, i + 1, threshold)
         IN IF c.idx = NoOrdinal THEN rest
            ELSE IF c.similarity < threshold THEN rest
            ELSE <<ErrorResult(c.idx, c.similarity)>> \o rest

\* mutant: the cap top_n is not applied
TopN_All(results, top_n) == results

\* line 255: results[: top_n]
TopN(results, top_n) ==
    SubSeq(results, 1, IF Len(results) < top_n THEN Len(results) ELSE top_n)

Request(query, top_k, top_n, threshold) ==
    [query |-> query, top_k |-> top_k, top_n |-> top_n, similarity_threshold |-> threshold]

\* what the embedding provider answers for a query text (lines 185-205)
QueryTexts == {"q1", "q2", "q3", "zero", "short"}

ProviderEmbedding(query) ==
    CASE query = "q1" -> Vec(EmbeddingDim, (1 :> 1000))
      [] query = "q2" -> Vec(EmbeddingDim, (2 :> 2000))
      [] query = "q3" -> Vec(EmbeddingDim, (1 :> 600) @@ (2 :> 800))
      [] query = "zero" -> Vec(EmbeddingDim, << >>)
      [] OTHER -> Vec(EmbeddingDim - 1, (1 :> 1000))

\* lines 259-269
QueryResponse(request, results) ==
    [status |-> 200, detail |-> "results", index_size |-> -1,
     query |-> request.query, results |-> results,
     metadata |-> [num_results |-> Len(results), top_k |-> request.top_k,
                   top_n |-> request.top_n,
                   similarity_threshold |-> request.similarity_threshold]]

\* lines 209-269 for a request whose embedding has arrived: the responses
\* the handler can give
SearchResponses(request) ==
    LET query_vector == Normalize(ProviderEmbedding(request.query))
    IN IF index.none
           THEN {Response(500, "'NoneType' object has no attribute 'search'", -1)}
       ELSE IF query_vector.len # EmbeddingDim
           THEN {Response(500, "AssertionError", -1)}
       ELSE {QueryResponse(request,
                           TopN(FilterCandidates(candidates, 1, request.similarity_threshold),
                                request.top_n)) :
                candidates \in FaissSearch(index, query_vector, request.top_k)}

\* lines 165-191: the loaded check, then the await of the embedding call
QStart(q) ==
    /\ qPc[q] \in {"idle", "done"}
    /\ queriesLeft > 0
    /\ queriesLeft' = queriesLeft - 1
    /\ IF ~index_loader \/ index.none
           THEN /\ qPc' = [qPc EXCEPT ![q] = "done"]
                /\ qResp' = [qResp EXCEPT ![q] =
                                Response(503, "RAG index not loaded. Service is not ready.", -1)]
           ELSE /\ qPc' = [qPc EXCEPT ![q] = "embedding"]
                /\ qResp' = [qResp EXCEPT ![q] = NoResponse]
    /\ requests # {}
    /\ UNCHANGED <<envVars, index_loader, loaderVars, bgVars, rlVars, requests, builds, lastPublished, reads,
                   pipeVars>>

\* mutant: a failing query unloads the index
QResume_DropsIndex(q) ==
    /\ qPc[q] = "embedding"
    /\ qResp' = [qResp EXCEPT ![q] = Response(500, "http error", -1)]
    /\ qPc' = [qPc EXCEPT ![q] = "done"]
    /\ ClearLoader
    /\ UNCHANGED <<envVars, index_loader, bgVars, rlVars, queriesLeft, requests, builds, lastPublished, reads,
                   pipeVars>>

\* lines 192-272: the embedding call returns, the search runs
QResume(q) ==
    /\ qPc[q] = "embedding"
    /\ \E provider \in ProviderOutcomes, request \in requests :
         IF provider # "ok"
             THEN qResp' = [qResp EXCEPT ![q] = Response(500, provider, -1)]
             ELSE \E response \in SearchResponses(request) :
                      qResp' = [qResp EXCEPT ![q] = response]
    /\ qPc' = [qPc EXCEPT ![q] = "done"]
    /\ UNCHANGED <<envVars, index_loader, loaderVars, bgVars, rlVars, queriesLeft, requests,
                   builds, lastPublished, reads, pipeVars>>

(***************************************************************************)
(* GET /health and GET /ready (main.py 136-152) read the loader and change *)
(* nothing: each is the response it gives in the current state.            *)
(***************************************************************************)
Probe(code, status, size) == [code |-> code, status |-> status, index_size |-> size]

\* mutant: only the loader object is tested
health_check_LoaderOnly ==
    IF ~index_loader
        THEN Probe(200, "unhealthy", -1)
        ELSE Probe(200, "healthy", ntotal(index))

health_check ==
    IF ~index_loader \/ index.none
        THEN Probe(200, "unhealthy", -1)
        ELSE Probe(200, "healthy", ntotal(index))

readiness_check ==
    IF ~index_loader \/ index.none
        THEN Probe(503, "Index not loaded", -1)
        ELSE Probe(200, "ready", ntotal(index))

(***************************************************************************)
(* The pipeline, idle (the service is a process of its own).               *)
(***************************************************************************)
PipeIdle ==
    /\ pipePc = "start"
    /\ pipeError = ""
    /\ phases = << >>
    /\ monState = "none"
    /\ monCancel = FALSE
    /\ jwState = "none"
    /\ jwPolls = 0
    /\ jobPhase = "Pending"
    /\ jobLeft = 0

(***************************************************************************)
(* The service: the state after import of main.py, before startup_event's  *)
(* task has run.                                                           *)
(***************************************************************************)
RagStart(budget, envChanges, reloadRequests, queryRequests) ==
    /\ envDatabaseUrl \in BOOLEAN
    /\ \/ tableExists = FALSE /\ storage = << >>
       \/ tableExists = TRUE /\ storage \in StorageContents
    /\ dbUp = TRUE
    /\ envLeft = envChanges
    /\ index_loader = FALSE
    /\ index = NoIndex
    /\ error_store = EmptyDict
    /\ index_to_error_id = EmptyDict
    /\ loaded = FALSE
    /\ max_wait_time = budget
    /\ bgPc = "init"
    /\ elapsed = 0
    /\ bgFetched = NotFetched
    /\ bgResult = ""
    /\ attempts = 0
    /\ rlPc = [r \in Reloaders |-> "idle"]
    /\ rlFetched = [r \in Reloaders |-> NotFetched]
    /\ rlResp = [r \in Reloaders |-> NoResponse]
    /\ rlPrior = [r \in Reloaders |-> 0]
    /\ reloadsLeft = reloadRequests
    /\ qPc = [q \in Queriers |-> "idle"]
    /\ qResp = [q \in Queriers |-> NoResponse]
    /\ queriesLeft = queryRequests
    /\ builds = 0
    /\ lastPublished = NothingPublished
    /\ reads = NoReads

\* the requests sent to the service beside its loads and reloads
ServiceRequests == {Request("q3", 2, 2, 600), Request("short", 1, 1, 0)}

Init ==
    /\ RagStart(PollBudget * WaitInterval, MaxEnvSteps, MaxReloads, MaxQueries)
    /\ requests = ServiceRequests
    /\ PipeIdle

Next ==
    \/ CreateTable \/ WriteRows \/ ToggleDb
    \/ BgStart \/ BgRead \/ BgResume \/ BgWake
    \/ \E r \in Reloaders : RlStart(r) \/ RlRead(r) \/ RlResume(r)
    \/ \E q \in Queriers : QStart(q) \/ QResume(q)

Spec == Init /\ [][Next]_vars

(***************************************************************************)
(* The background loop with the wait bound of the program, beside a        *)
(* changing storage and reload requests.  The scheduler runs a task that   *)
(* can run, the database answers a query, a sleep ends: weak fairness of   *)
(* the loop's steps.                                                       *)
(***************************************************************************)
BgStep == BgStart \/ BgRead \/ BgResume \/ BgWake

LoopInit == RagStart(MaxWaitTime, LoopEnvSteps, LoopReloads, 0) /\ requests = {} /\ PipeIdle

LoopNext ==
    \/ CreateTable \/ WriteRows \/ ToggleDb
    \/ BgStart \/ BgRead \/ BgResume \/ BgWake
    \/ \E r \in Reloaders : RlStart(r) \/ RlRead(r) \/ RlResume(r)

SpecLoop == LoopInit /\ [][LoopNext]_vars /\ WF_vars(BgStep)


(***************************************************************************)
(* The service answering queries of every shape: the background loop       *)
(* loads what storage holds, then requests are served.                     *)
(***************************************************************************)
TopKs == {1, 2, 4}
TopNs == {1, 2, 3}
Thresholds == {0, 600, 700, 1000}

SearchRequests ==
    {Request(query, top_k, top_n, threshold) :
        query \in QueryTexts, top_k \in TopKs, top_n \in TopNs, threshold \in Thresholds}

SearchInit ==
    /\ RagStart(PollBudget * WaitInterval, 0, 0, SearchQueries)
    /\ requests = SearchRequests
    /\ PipeIdle

SearchNext ==
    \/ BgStart \/ BgRead \/ BgResume \/ BgWake
    \/ \E q \in Queriers : QStart(q) \/ QResume(q)

SpecSearch == SearchInit /\ [][SearchNext]_vars

(***************************************************************************)
(* backend_init_pipeline.main (lines 30-113) with the tasks it starts.     *)
(* phases is the log of what has happened: "prepare" (preparation          *)
(* returned), "job" (the job-wait was awaited and had succeeded),          *)
(* "service" (the readiness wait returned), "process" (the processing      *)
(* phase was invoked), "processed" (it returned).                          *)
(***************************************************************************)
JobPhases == {"Pending", "Running", "Succeeded", "Failed", "Unknown"}

Logged(p) == \E i \in 1..Len(phases) : phases[i] = p

\* the job's phase changes; Succeeded and Failed are final
JobPhaseChange ==
    /\ jobLeft > 0
    /\ jobPhase \notin {"Succeeded", "Failed"}
    /\ \E ph \in JobPhases \ {jobPhase} : jobPhase' = ph
    /\ jobLeft' = jobLeft - 1
    /\ UNCHANGED <<pipePc, pipeError, phases, monState, monCancel, jwState, jwPolls, ragVars>>

\* wait_for_job_complete: one poll of the job's phase
JobPoll ==
    /\ jwState = "running"
    /\ IF jobPhase = "Succeeded" THEN jwState' = "ok" /\ jwPolls' = jwPolls
       ELSE IF jobPhase = "Failed" THEN jwState' = "failed" /\ jwPolls' = jwPolls
       ELSE /\ jwPolls' = jwPolls + 1
            /\ jwState' = IF jwPolls + 1 >= MaxJobPolls THEN "timeout" ELSE "running"
    /\ UNCHANGED <<pipePc, pipeError, phases, monState, monCancel, jobPhase, jobLeft, ragVars>>

\* monitor_other_job_async ends with an error of its own
MonitorFails ==
    /\ monState = "running"
    /\ ~monCancel
    /\ monState' = "failed"
    /\ UNCHANGED <<pipePc, pipeError, phases, monCancel, jwState, jwPolls, jobPhase, jobLeft,
                   ragVars>>

\* monitor_other_job_async unwinds on the cancellation
MonitorCancelled ==
    /\ monState = "running"
    /\ monCancel
    /\ monState' = "cancelled"
    /\ UNCHANGED <<pipePc, pipeError, phases, monCancel, jwState, jwPolls, jobPhase, jobLeft,
                   ragVars>>

\* lines 43-72: the monitor is started (or not), the directories are set
\* up, the job-wait task is created, preparation is awaited
PipeStart ==
    /\ pipePc = "start"
    /\ \E monitorStarts \in BOOLEAN :
         monState' = IF monitorStarts THEN "running" ELSE "none"
    /\ \E directoriesOk \in BOOLEAN :
         IF directoriesOk
             THEN jwState' = "running" /\ pipePc' = "prepare" /\ pipeError' = pipeError
             ELSE jwState' = jwState /\ pipePc' = "finally" /\ pipeError' = "OSError"
    /\ UNCHANGED <<phases, monCancel, jwPolls, jobPhase, jobLeft, ragVars>>

\* line 72: training_pipeline_prepare returns or raises
PrepareEnds ==
    /\ pipePc = "prepare"
    /\ \E ok \in BOOLEAN :
         IF ok
             THEN /\ phases' = Append(phases, "prepare")
                  /\ pipePc' = "await_job"
                  /\ pipeError' = pipeError
             ELSE /\ phases' = phases
                  /\ pipePc' = "finally"
                  /\ pipeError' = "prepare failed"
    /\ UNCHANGED <<monState, monCancel, jwState, jwPolls, jobPhase, jobLeft, ragVars>>

AwaitJob_NotAwaited ==
    /\ pipePc = "await_job"
    /\ phases' = Append(phases, "job")
    /\ pipePc' = "wait_service"
    /\ UNCHANGED <<pipeError, monState, monCancel, jwState, jwPolls, jobPhase, jobLeft, ragVars>>

\* mutant: the failure of the job-wait is caught and not raised again
AwaitJob_SwallowsFailure ==
    /\ pipePc = "await_job"
    /\ jwState # "running"
    /\ phases' = IF jwState = "ok" THEN Append(phases, "job") ELSE phases
    /\ pipePc' = "wait_service"
    /\ UNCHANGED <<pipeError, monState, monCancel, jwState, jwPolls, jobPhase, jobLeft, ragVars>>

\* lines 81-91: the job-wait task is awaited; on success the readiness wait
\* is entered
AwaitJob ==
    /\ pipePc = "await_job"
    /\ jwState # "running"
    /\ IF jwState = "ok"
           THEN /\ phases' = Append(phases, "job")
                /\ pipePc' = "wait_service"
                /\ pipeError' = pipeError
           ELSE /\ phases' = phases
                /\ pipePc' = "finally"
                /\ pipeError' = IF jwState = "timeout" THEN "TimeoutError" ELSE "RuntimeError"
    /\ UNCHANGED <<monState, monCancel, jwState, jwPolls, jobPhase, jobLeft, ragVars>>

\* lines 91-100: wait_for_rag_service returns and the processing phase is
\* invoked, or it raises
ServiceWaitEnds ==
    /\ pipePc = "wait_service"
    /\ \E ok \in BOOLEAN :
         IF ok
             THEN /\ phases' = phases \o <<"service", "process">>
                  /\ pipePc' = "process"
                  /\ pipeError' = pipeError
             ELSE /\ phases' = phases
                  /\ pipePc' = "finally"
                  /\ pipeError' = "service wait failed"
    /\ UNCHANGED <<monState, monCancel, jwState, jwPolls, jobPhase, jobLeft, ragVars>>

\* line 100: training_pipeline_process returns or raises
ProcessEnds ==
    /\ pipePc = "process"
    /\ \E ok \in BOOLEAN :
         IF ok
             THEN phases' = Append(phases, "processed") /\ pipeError' = pipeError
             ELSE phases' = phases /\ pipeError' = "process failed"
    /\ pipePc' = "finally"
    /\ UNCHANGED <<monState, monCancel, jwState, jwPolls, jobPhase, jobLeft, ragVars>>

\* mutant: the run returns without cancelling and awaiting the monitor
Finally_NoCancel ==
    /\ pipePc = "finally"
    /\ pipePc' = "returned"
    /\ UNCHANGED <<pipeError, phases, monState, monCancel, jwState, jwPolls, jobPhase, jobLeft,
                   ragVars>>

\* lines 106-111: the finally block up to the await of the monitor
Finally ==
    /\ pipePc = "finally"
    /\ IF monState = "none"
           THEN pipePc' = "returned" /\ monCancel' = monCancel
           ELSE pipePc' = "await_monitor" /\ monCancel' = (monState = "running")
    /\ UNCHANGED <<pipeError, phases, monState, jwState, jwPolls, jobPhase, jobLeft, ragVars>>

\* lines 111-113: the monitor task has ended; CancelledError is dropped,
\* another exception of the task leaves main
AwaitMonitor ==
    /\ pipePc = "await_monitor"
    /\ monState # "running"
    /\ pipeError' = IF monState = "failed" THEN "monitor failed" ELSE pipeError
    /\ pipePc' = "returned"
    /\ UNCHANGED <<phases, monState, monCancel, jwState, jwPolls, jobPhase, jobLeft, ragVars>>

\* the service, not running (the pipeline is a process of its own)
RagParked ==
    /\ RagStart(0, 0, 0, 0)
    /\ requests = {}
    /\ envDatabaseUrl = FALSE
    /\ tableExists = FALSE

PipeInit ==
    /\ RagParked
    /\ pipePc = "start"
    /\ pipeError = ""
    /\ phases = << >>
    /\ monState = "none"
    /\ monCancel = FALSE
    /\ jwState = "none"
    /\ jwPolls = 0
    /\ jobPhase \in JobPhases
    /\ jobLeft = MaxJobChanges

PipeNext ==
    \/ JobPhaseChange \/ JobPoll
    \/ MonitorFails \/ MonitorCancelled
    \/ PipeStart \/ PrepareEnds \/ AwaitJob \/ ServiceWaitEnds \/ ProcessEnds
    \/ Finally \/ AwaitMonitor

SpecPipe == PipeInit /\ [][PipeNext]_vars

(***************************************************************************)
(* Properties of the service.                                              *)
(***************************************************************************)
\* a build attempt's load_index resumes in this step: by the loop, by reload r
BgResumes == bgPc = "fetched" /\ bgPc' # "fetched"
RlResumes(r) == rlPc[r] = "fetched" /\ rlPc'[r] = "done"
ReloadInProgress(r) == rlPc[r] \in {"query", "fetched"}

BadRow(row) ==
    \/ row.embedding_dim # EmbeddingDim
    \/ row.embedding.enc \in {"garbage", "json scalar"}
    \/ row.embedding.vec.len # EmbeddingDim
HasBadRow(f) == f.kind = "rows" /\ \E i \in 1..Len(f.rows) : BadRow(f.rows[i])
ZeroRows(f) == f.kind = "rows" /\ f.rows = << >>

\* C1: a reload whose rebuild fails, issued while a snapshot was loaded,
\* returns with that snapshot still the active one (health, ready and query
\* still serve from it).
C1_FailedReloadKeepsSnapshot ==
    [][\A r \in Reloaders :
          (RlResumes(r) /\ rlPrior[r] # 0 /\ rlResp'[r].status = 500)
              => (Snapshot' = rlPrior[r] /\ health_check'.status = "healthy"
                  /\ readiness_check'.status = "ready")]_vars

\* C2: while a reload is in progress (from its start to its completion),
\* the readers see a complete snapshot, the prior one or the new one, never
\* the not-loaded state.
C2_ReadersSeeSnapshotDuringReload ==
    \A r \in Reloaders :
        (ReloadInProgress(r) /\ rlPrior[r] # 0)
            => (health_check.status = "healthy" /\ readiness_check.status = "ready")

\* C3: whenever a snapshot is active, the index, the ordinal mapping and
\* the payload store have the same size, the ordinals are 0..n-1, and every
\* ordinal maps to a key of the payload store.
C3_SnapshotSizesAgree ==
    ~index.none =>
        /\ DOMAIN index_to_error_id = 0..(ntotal(index) - 1)
        /\ Cardinality(DOMAIN error_store) = ntotal(index)
        /\ \A i \in DOMAIN index_to_error_id : index_to_error_id[i] \in DOMAIN error_store

C3_Witness == ~index.none /\ ntotal(index) = 3 /\ builds = 2

\* C4: a build attempt, of the background loop or of a reload, that finds
\* zero rows leaves no snapshot active and raises no error to its caller:
\* the loop goes on, the reload does not answer with an error.
C4_ZeroRowsNotReadyNoError ==
    [][/\ (BgResumes /\ ZeroRows(bgFetched)) => (index'.none /\ bgPc' = "sleep")
       /\ \A r \in Reloaders :
             (RlResumes(r) /\ ZeroRows(rlFetched[r]))
                 => (index'.none /\ rlResp'[r].status # 500)]_vars

\* C5: a build over rows of which one has a wrong declared dimension, an
\* undecodable vector or a vector of the wrong length raises and assigns
\* none of index, payload store, ordinal mapping and loaded flag; the active
\* index is never a prefix of rows cut at a bad one.
C5_BuildAllOrNothing ==
    /\ [][/\ (BgResumes /\ HasBadRow(bgFetched))
                => (UNCHANGED loaderVars /\ bgPc' \in {"done", "sleep"}
                    /\ bgResult' # "loaded")
          /\ \A r \in Reloaders :
                (RlResumes(r) /\ HasBadRow(rlFetched[r]))
                    => (UNCHANGED loaderVars /\ rlResp'[r].status = 500)]_vars
    /\ [](~index.none =>
            \E c \in ValidContents :
                index.vectors = [i \in 1..Len(c) |-> c[i].embedding.vec])

C5_Witness ==
    /\ bgResult = "failed"
    /\ \E r \in Reloaders : rlResp[r].detail = "Invalid embedding shape"
    /\ ~index.none

\* C6: a query that reaches its search step (the embedding call succeeded)
\* while no snapshot is loaded is answered 503, in every interleaving.
C6_QueryWithoutSnapshotIs503 ==
    [][\A q \in Queriers :
          (/\ qPc[q] = "embedding" /\ qPc'[q] = "done"
           /\ index.none
           /\ qResp'[q].detail \notin (ProviderOutcomes \ {"ok"}))
              => qResp'[q].status = 503]_vars

\* C7: health and ready report healthy/ready exactly when a fully built
\* snapshot is active: not ready in every state before the first successful
\* build, ready with the snapshot's size in the state a successful build
\* completes in.
C7_ProbesReflectSnapshot ==
    /\ [](builds = 0 =>
            (health_check = Probe(200, "unhealthy", -1)
             /\ readiness_check = Probe(503, "Index not loaded", -1)))
    /\ []((health_check.status = "healthy") <=> (index_loader /\ loaded /\ ~index.none))
    /\ []((readiness_check.status = "ready") <=> (index_loader /\ loaded /\ ~index.none))
    /\ [][builds' # builds =>
            LET rows == IF BgResumes THEN bgFetched.rows
                        ELSE rlFetched[CHOOSE r \in Reloaders : RlResumes(r)].rows
            IN /\ health_check' = Probe(200, "healthy", Len(rows))
               /\ readiness_check' = Probe(200, "ready", Len(rows))]_vars

C7_Witness ==
    /\ builds = 1
    /\ readiness_check = Probe(200, "ready", 3)
    /\ health_check = Probe(200, "healthy", 3)

(***************************************************************************)
(* Properties of the background loop.                                      *)
(***************************************************************************)
MaxAttempts == MaxWaitTime \div WaitInterval

\* the failure the resuming attempt meets is one the loop retries
Retryable(f) == f.kind # "rows" \/ ZeroRows(f)

\* the database is reachable and the table holds valid rows
StorageServesValid == dbUp /\ tableExists /\ storage \in ValidContents

\* C8: the background loop terminates; when every attempt fails with a
\* retryable condition it stops after max_wait_time / wait_interval
\* attempts, by returning, and from then on only a reload that succeeds
\* makes the service ready.
C8_LoopTerminates ==
    /\ <>(bgPc = "done")
    /\ [](attempts <= MaxAttempts /\ elapsed <= MaxWaitTime)
    /\ [](bgPc = "done" => bgResult \in {"loaded", "failed", "timeout", "no DATABASE_URL"})
    /\ [](bgResult = "timeout" => (attempts = MaxAttempts /\ elapsed = MaxWaitTime))
    /\ [][(bgResult = "timeout" /\ index.none /\ ~index'.none)
             => \E r \in Reloaders : RlResumes(r) /\ rlResp'[r].status = 200]_vars

C8_Witness ==
    /\ bgPc = "done" /\ bgResult = "timeout" /\ attempts = 120
    /\ ~index.none
    /\ \E r \in Reloaders : rlResp[r].status = 200

\* C9 as stated: a retryable failure is followed by one sleep and another
\* attempt while the bound is not exhausted, and storage that comes to
\* serve valid rows before the bound is exhausted (elapsed < max_wait_time,
\* the loop still running, no validation failure pending) leads to Ready.
C9_ValidBeforeBoundLeadsToReady ==
    (/\ StorageServesValid
     /\ bgPc \in {"query", "fetched", "sleep"}
     /\ bgPc = "fetched" => Retryable(bgFetched)
     /\ elapsed < max_wait_time)
        ~> (~index.none \/ ~StorageServesValid)

\* a read of the loop is still to come: the attempt in flight has not read,
\* or the sleep ahead ends below the bound
ReadToCome ==
    \/ bgPc = "init" /\ envDatabaseUrl
    \/ bgPc = "query"
    \/ bgPc = "sleep" /\ elapsed + WaitInterval < max_wait_time
    \/ bgPc = "fetched" /\ Retryable(bgFetched) /\ elapsed + WaitInterval < max_wait_time

\* C9, amended: a retryable failure (no table, zero rows, any other error of
\* the query) is followed by one sleep of wait_interval and, below the
\* bound, by another attempt; storage that serves valid rows while a read
\* of the loop is still to come leads to Ready (or stops serving them).
C9_RetryLeadsToReady ==
    /\ [][(BgResumes /\ Retryable(bgFetched))
             => (bgPc' = "sleep" /\ elapsed' = elapsed /\ UNCHANGED loaderVars)]_vars
    /\ [][(bgPc = "sleep" /\ bgPc' # "sleep")
             => /\ elapsed' = elapsed + WaitInterval
                /\ elapsed' < max_wait_time
                     => (attempts' = attempts + 1 /\ bgPc' \in {"query", "done"}
                         /\ (bgPc' = "done" => bgResult' = "loaded"))]_vars
    /\ (StorageServesValid /\ ReadToCome) ~> (~index.none \/ ~StorageServesValid)

C9_Witness ==
    /\ bgResult = "loaded" /\ ~index.none
    /\ attempts = 3 /\ elapsed = 10
    /\ envLeft = 0

(***************************************************************************)
(* Properties of the pipeline.                                             *)
(***************************************************************************)
\* p is logged before q
Before(p, q) ==
    \E i, j \in 1..Len(phases) : i < j /\ phases[i] = p /\ phases[j] = q

\* C10: the processing phase is invoked only after preparation has
\* completed, the job-wait has completed with success and the readiness
\* wait has returned, whichever of preparation and job-wait ended first.
C10_ProcessAfterAllThree ==
    (pipePc = "process" \/ Logged("process")) =>
        /\ Before("prepare", "process")
        /\ Before("job", "process")
        /\ Before("service", "process")
        /\ jwState = "ok"

C10_Witness ==
    /\ pipePc = "process"
    /\ jwPolls = 1
    /\ jobLeft = 0

JobWaitFailed == jwState \in {"timeout", "failed"}

\* C11: when the job-wait fails (timeout or job failure) the run never
\* waits for the service and never invokes the processing phase, however
\* early preparation completed; the run ends with an error after the
\* monitor's cleanup, and that error is the job-wait's own once preparation
\* had completed and the monitor did not end with an error of its own.
C11_JobWaitFailureAborts ==
    JobWaitFailed =>
        /\ pipePc \notin {"wait_service", "process"}
        /\ ~Logged("job") /\ ~Logged("service") /\ ~Logged("process")
        /\ pipePc = "returned" =>
              /\ pipeError # ""
              /\ monState # "running"
              /\ (Logged("prepare") /\ monState # "failed")
                    => pipeError = (IF jwState = "timeout" THEN "TimeoutError"
                                    ELSE "RuntimeError")

C11_Witness ==
    /\ pipePc = "returned"
    /\ jwState = "timeout"
    /\ pipeError = "TimeoutError"
    /\ phases = <<"prepare">>
    /\ monState = "cancelled"

\* C12: on every exit path (success, job-wait failure, preparation failure,
\* readiness-wait or processing failure, failure before preparation) a
\* monitor that was started is cancelled and awaited before the run
\* returns, and its cancellation does not become an error of the run.
C12_MonitorCancelledAndAwaited ==
    /\ [](pipePc = "returned" => monState \in {"none", "cancelled", "failed"})
    /\ [][(pipePc # "returned" /\ pipePc' = "returned")
             => \/ pipePc = "finally" /\ monState = "none"
                \/ /\ pipePc = "await_monitor"
                   /\ monState \in {"cancelled", "failed"}
                   /\ monState = "cancelled" => (monCancel /\ pipeError' = pipeError)]_vars
    /\ [][(pipePc = "finally" /\ pipePc' # "finally" /\ monState = "running")
             => (monCancel' /\ pipePc' = "await_monitor")]_vars

C12_Witness ==
    /\ pipePc = "returned"
    /\ monState = "cancelled"
    /\ pipeError = ""
    /\ phases = <<"prepare", "job", "service", "process", "processed">>

\* C13: when the run has returned, normally or with an error, no task it
\* spawned is still running, neither the monitor nor the job-wait task.
C13_NoTaskOutlivesRun ==
    pipePc = "returned" => (monState # "running" /\ jwState # "running")

\* C22: the outcome of a run does not depend on the monitor: when the
\* monitor could not be started, or ended with an error of its own during
\* the run, a run whose preparation, job-wait, readiness wait and processing
\* all succeeded returns without error, and a run whose job-wait failed
\* returns with the job-wait's own error.
C22_OutcomeIndependentOfMonitor ==
    (pipePc = "returned" /\ monState \in {"none", "failed"}) =>
        /\ Logged("processed") => pipeError = ""
        /\ (Logged("prepare") /\ JobWaitFailed)
              => pipeError = (IF jwState = "timeout" THEN "TimeoutError"
                              ELSE "RuntimeError")

(***************************************************************************)
(* Properties of the search.                                               *)
(***************************************************************************)
\* query q gets its answer in this step, and the answer carries results
Answered(q) == qPc[q] = "embedding" /\ qPc'[q] = "done" /\ qResp'[q].status = 200

\* the score the active index gives a key for the query text
OrdinalOf(key) == CHOOSE o \in DOMAIN index_to_error_id : index_to_error_id[o] = key
ScoreOf(o, query) == InnerProduct(index.vectors[o + 1], Normalize(ProviderEmbedding(query)))

\* the i-th highest score of the index, counted with repetitions
SortedScore(i, query) ==
    LET ords == 0..(ntotal(index) - 1)
    IN CHOOSE x \in {ScoreOf(o, query) : o \in ords} :
          /\ Cardinality({o \in ords : ScoreOf(o, query) > x}) < i
          /\ i <= Cardinality({o \in ords : ScoreOf(o, query) >= x})

Min(a, b) == IF a < b THEN a ELSE b

\* C14: the results of a search are in order of non-increasing score.
C14_ResultsByDescendingScore ==
    [][\A q \in Queriers : Answered(q) =>
          LET results == qResp'[q].results
          IN \A i, j \in 1..Len(results) :
                i < j => results[i].similarity_score >= results[j].similarity_score]_vars

C14_Witness ==
    \E q \in Queriers :
        /\ qResp[q].status = 200
        /\ Len(qResp[q].results) = 3
        /\ qResp[q].results[1].similarity_score > qResp[q].results[3].similarity_score

\* C15: no result has a score below the threshold, and a row that is not
\* returned although its score reaches the threshold was not dropped by the
\* filter: it is outside the top_k candidates or behind the cap top_n.
C15_ThresholdRespected ==
    [][\A q \in Queriers : Answered(q) =>
          LET results == qResp'[q].results
              meta == qResp'[q].metadata
              query == qResp'[q].query
              returned == {results[i].error_id : i \in 1..Len(results)}
              ords == 0..(ntotal(index) - 1)
          IN /\ \A i \in 1..Len(results) :
                   results[i].similarity_score >= meta.similarity_threshold
             /\ \A o \in ords :
                   (index_to_error_id[o] \notin returned
                    /\ ScoreOf(o, query) >= meta.similarity_threshold)
                       => \/ Len(results) = meta.top_n
                          \/ Cardinality({p \in ords \ {o} :
                                 ScoreOf(p, query) >= ScoreOf(o, query)}) >= meta.top_k]_vars

C15_Witness ==
    \E q \in Queriers :
        /\ qResp[q].status = 200
        /\ qResp[q].metadata.similarity_threshold = 1000
        /\ qResp[q].metadata.top_k = 4
        /\ qResp[q].metadata.top_n = 3
        /\ qResp[q].metadata.num_results = 2
        /\ ntotal(index) = 3

\* C16: the results are the first top_n, by descending score, of the top_k
\* highest-scoring rows whose score reaches the threshold: their scores are
\* the highest scores of the index in order, cut at top_k, at the threshold
\* and at top_n; every result is a row of the index with its own score,
\* no row twice; the count is at most min(top_n, top_k, index size).
C16_ResultsAreTopNOfTopK ==
    [][\A q \in Queriers : Answered(q) =>
          LET results == qResp'[q].results
              meta == qResp'[q].metadata
              query == qResp'[q].query
              n == ntotal(index)
              candidates == {i \in 1..Min(meta.top_k, n) :
                                SortedScore(i, query) >= meta.similarity_threshold}
              expected == Min(meta.top_n, Cardinality(candidates))
          IN /\ Len(results) = expected
             /\ Len(results) <= Min(meta.top_n, Min(meta.top_k, n))
             /\ meta.num_results = Len(results)
             /\ \A i \in 1..Len(results) :
                   /\ results[i].similarity_score = SortedScore(i, query)
                   /\ results[i].error_id \in DOMAIN error_store
                   /\ results[i].similarity_score
                          = ScoreOf(OrdinalOf(results[i].error_id), query)
                   /\ results[i].error_title = error_store[results[i].error_id].error_title
             /\ \A i, j \in 1..Len(results) :
                   i # j => results[i].error_id # results[j].error_id]_vars

C16_Witness ==
    \E q \in Queriers :
        /\ qResp[q].status = 200
        /\ qResp[q].query = "q2"
        /\ qResp[q].metadata.top_k = 2
        /\ qResp[q].metadata.top_n = 3
        /\ qResp[q].metadata.similarity_threshold = 0
        /\ qResp[q].metadata.num_results = 2
        /\ ntotal(index) = 3

(***************************************************************************)
(* Properties of queries and builds.                                       *)
(***************************************************************************)
\* C17: a query request, answered with results or with an error (provider
\* error, unexpected response shape, embedding of the wrong length, index
\* gone), changes nothing of the loader: index, ordinal mapping, payload
\* store and loaded flag are the same before and after each of its steps.
C17_QueryLeavesLoaderUnchanged ==
    [][\A q \in Queriers :
          qPc'[q] # qPc[q] => UNCHANGED <<index_loader, index, error_store,
                                          index_to_error_id, loaded>>]_vars

C17_Witness ==
    \E q \in Queriers :
        /\ qResp[q] = Response(500, "AssertionError", -1)
        /\ ~index.none
        /\ loaded
        /\ builds = 1

\* the scores an index gives the keys of a mapping for a query text
KeyScores(ix, mapping, query) ==
    [o \in DOMAIN mapping |->
        <<mapping[o], InnerProduct(ix.vectors[o + 1], Normalize(ProviderEmbedding(query)))>>]

C19_OrdinalsInRowOrder ==
    [][builds' # builds =>
          LET rows == IF BgResumes THEN bgFetched.rows
                      ELSE rlFetched[CHOOSE r \in Reloaders : RlResumes(r)].rows
              n == Len(rows)
          IN /\ DOMAIN index_to_error_id' = 0..(n - 1)
             /\ ntotal(index') = n
             /\ \A i \in 0..(n - 1) :
                   LET row == rows[i + 1]
                       entry == error_store'[row.error_id]
                   IN /\ index_to_error_id'[i] = row.error_id
                      /\ index'.vectors[i + 1] = row.embedding.vec
                      /\ entry.error_id = row.error_id
                      /\ entry.error_title = row.error_title
                      /\ entry.sections = (IF "sections" \in DOMAIN row.error_metadata
                                               THEN row.error_metadata.sections
                                               ELSE EmptyDict)
                      /\ entry.metadata = (IF "metadata" \in DOMAIN row.error_metadata
                                               THEN row.error_metadata.metadata
                                               ELSE EmptyDict)]_vars

C19_Witness ==
    /\ ~index.none
    /\ index_to_error_id = (0 :> "e1") @@ (1 :> "e2") @@ (2 :> "e3")
    /\ index.vectors = <<V3, V2, V3>>
    /\ error_store["e2"].sections = EmptyDict
    /\ error_store["e1"].error_title = "t1b"

\* C20: in the background loop a build attempt that fails validation (a
\* declared dimension that differs, a vector that cannot be decoded, a
\* vector of the wrong length) ends the loop at once, with no further
\* attempt whatever storage holds later, and from then on only a reload
\* that succeeds loads an index.
C20_ValidationFailureEndsLoop ==
    /\ [][(BgResumes /\ HasBadRow(bgFetched))
             => (bgPc' = "done" /\ bgResult' = "failed")]_vars
    /\ [][bgResult = "failed"
             => (bgPc' = "done" /\ bgResult' = "failed" /\ attempts' = attempts)]_vars
    /\ [][(bgResult = "failed" /\ index.none /\ ~index'.none)
             => \E r \in Reloaders : RlResumes(r) /\ rlResp'[r].status = 200]_vars

(***************************************************************************)
(* Overlapping builds.                                                     *)
(***************************************************************************)
\* no build attempt is between its storage read and its return
BuildsCompleted ==
    /\ bgPc \notin {"query", "fetched"}
    /\ \A r \in Reloaders : rlPc[r] \notin {"query", "fetched"}

\* the loop's attempt, or reload r, publishes in this step a build of a read
\* older than the read of the active snapshot
OlderOverNewerBg ==
    /\ BgResumes /\ LoadOutcome(bgFetched).ok
    /\ ~index.none /\ "bg" \in reads.older
OlderOverNewer(r) ==
    /\ RlResumes(r) /\ LoadOutcome(rlFetched[r]).ok
    /\ ~index.none /\ r \in reads.older

\* C21: when builds overlap (reloads, or a reload and the loop's attempt) and
\* storage changes between their reads, a build from an older read never
\* replaces a snapshot built from a newer read with other content, and once
\* every build has completed the active snapshot is the one built from the
\* most recent storage read
C21_NewestReadWins ==
    /\ [][OlderOverNewerBg => bgFetched.rows = lastPublished.rows]_vars
    /\ [][\A r \in Reloaders :
            OlderOverNewer(r) => rlFetched[r].rows = lastPublished.rows]_vars
    /\ []((BuildsCompleted /\ ~index.none) => lastPublished.rows = reads.newest)

====
